---- MODULE Spec2Model ----
(***************************************************************************)
(* Model of src/src/lib.rs: the axis-aligned rectangle types Rect (f32),    *)
(* URect (u32) and IRect (i32) and their operations.                        *)
(*                                                                          *)
(* Scalars.                                                                 *)
(*   u32  a pair <<hi, lo>> of 16-bit limbs, value hi * 2^16 + lo, so that  *)
(*        no integer of the model exceeds 2^31 - 1.                         *)
(*   i32  an integer in I32_MIN .. I32_MAX; no intermediate value leaves    *)
(*        that range.                                                       *)
(*   f32  <<"nan", 0>>, <<"inf", 1>>, <<"inf", -1>> or <<"fin", n>> with n  *)
(*        an integer that f32 represents exactly.  -0.0 is identified with  *)
(*        0.0: ==, <, >=, max, min, + and - do not tell them apart beyond   *)
(*        the sign of a zero, and == ignores that sign.                     *)
(* Integer + and - panic when overflow checks are on (debug profile) and    *)
(* wrap when they are off (release profile).                                *)
(***************************************************************************)
EXTENDS Integers, Sequences, FiniteSets, TLC

VARIABLES dom, build, self, op, arg, res

vars == <<dom, build, self, op, arg, res>>

\* Largest small coordinate that the inputs are drawn from.
MaxCoord == 2

Builds == {"checked", "wrapping"}

Domains == {"Rect", "URect", "IRect"}

----------------------------------------------------------------------------
\* u32

Limb == 65536

U32(hi, lo) == <<hi, lo>>

U32_ZERO == U32(0, 0)

U32_MAX == U32(Limb - 1, Limb - 1)

U32_lt(a, b) == a[1] < b[1] \/ (a[1] = b[1] /\ a[2] < b[2])

U32_ge(a, b) == ~U32_lt(a, b)

U32_max(a, b) == IF U32_lt(a, b) THEN b ELSE a

U32_min(a, b) == IF U32_lt(b, a) THEN b ELSE a

\* a + b: [ok |-> the call completes, over |-> it overflows, v |-> the value,
\* wrapped on overflow]
U32_add(bld, a, b) ==
    LET lo    == a[2] + b[2]
        hi    == a[1] + b[1] + (lo \div Limb)
        over  == hi >= Limb
    IN  [ok |-> ~(over /\ bld = "checked"), over |-> over, v |-> U32(hi % Limb, lo % Limb)]

\* a - b
U32_sub(bld, a, b) ==
    LET borrow == IF a[2] < b[2] THEN 1 ELSE 0
        lo     == a[2] - b[2] + borrow * Limb
        hi     == a[1] - b[1] - borrow
        under  == hi < 0
    IN  [ok |-> ~(under /\ bld = "checked"), over |-> under, v |-> U32(hi % Limb, lo)]

----------------------------------------------------------------------------
\* i32

I32_MAX == 2147483647

I32_MIN == -I32_MAX - 1

I32_max(a, b) == IF a < b THEN b ELSE a

I32_min(a, b) == IF b < a THEN b ELSE a

\* a + b leaves the range upwards / downwards
I32_add_over(a, b) == b > 0 /\ a > I32_MAX - b

I32_add_under(a, b) == b < 0 /\ a < I32_MIN - b

I32_add(bld, a, b) ==
    LET over == I32_add_over(a, b) \/ I32_add_under(a, b)
        v    == IF I32_add_over(a, b) THEN (a + I32_MIN) + (b + I32_MIN)
                ELSE IF I32_add_under(a, b) THEN (a - I32_MIN) + (b - I32_MIN)
                ELSE a + b
    IN  [ok |-> ~(over /\ bld = "checked"), over |-> over, v |-> v]

\* a - b leaves the range upwards / downwards
I32_sub_over(a, b) == b < 0 /\ a > I32_MAX + b

I32_sub_under(a, b) == b > 0 /\ a < I32_MIN + b

I32_sub(bld, a, b) ==
    LET over == I32_sub_over(a, b) \/ I32_sub_under(a, b)
        v    == IF I32_sub_over(a, b) THEN (a + I32_MIN) - (b - I32_MIN)
                ELSE IF I32_sub_under(a, b) THEN (a - I32_MIN) - (b + I32_MIN)
                ELSE a - b
    IN  [ok |-> ~(over /\ bld = "checked"), over |-> over, v |-> v]

----------------------------------------------------------------------------
\* f32

F32_NAN == <<"nan", 0>>

F32_INF == <<"inf", 1>>

F32_NEG_INF == <<"inf", -1>>

Fin(n) == <<"fin", n>>

F32_ZERO == Fin(0)

\* 2^24: every integer of magnitude up to it is an f32
F32_EXACT == 16777216

F32_is_nan(a) == a[1] = "nan"

\* a == b
F32_eq(a, b) == ~F32_is_nan(a) /\ ~F32_is_nan(b) /\ a = b

\* a < b
F32_lt(a, b) ==
    /\ ~F32_is_nan(a)
    /\ ~F32_is_nan(b)
    /\ a # b
    /\ IF a[1] = "inf" THEN a[2] = -1
       ELSE IF b[1] = "inf" THEN b[2] = 1
       ELSE a[2] < b[2]

\* a >= b
F32_ge(a, b) == F32_eq(a, b) \/ F32_lt(b, a)

\* f32::max: a NaN operand is ignored
F32_max(a, b) ==
    IF F32_is_nan(a) THEN b
    ELSE IF F32_is_nan(b) THEN a
    ELSE IF F32_lt(a, b) THEN b ELSE a

\* f32::min: a NaN operand is ignored
F32_min(a, b) ==
    IF F32_is_nan(a) THEN b
    ELSE IF F32_is_nan(b) THEN a
    ELSE IF F32_lt(b, a) THEN b ELSE a

Abs(n) == IF n < 0 THEN -n ELSE n

\* distance between neighbouring f32 values around the integer n
RECURSIVE F32_ulp(_)
F32_ulp(n) == IF Abs(n) < F32_EXACT THEN 1 ELSE 2 * F32_ulp(Abs(n) \div 2)

\* the integer n rounded to the nearest f32, ties to the even mantissa
F32_round(n) ==
    LET u  == F32_ulp(n)
        lo == (n \div u) * u
        r  == n - lo
    IN  IF r = 0 THEN n
        ELSE IF 2 * r < u THEN lo
        ELSE IF 2 * r > u THEN lo + u
        ELSE IF (lo \div u) % 2 = 0 THEN lo ELSE lo + u

\* a + b
F32_add(a, b) ==
    IF F32_is_nan(a) \/ F32_is_nan(b) THEN F32_NAN
    ELSE IF a[1] = "inf" THEN (IF b[1] = "inf" /\ b[2] # a[2] THEN F32_NAN ELSE a)
    ELSE IF b[1] = "inf" THEN b
    ELSE Fin(F32_round(a[2] + b[2]))

F32_neg(a) == IF a[1] = "fin" THEN Fin(-a[2]) ELSE IF a[1] = "inf" THEN <<"inf", -a[2]>> ELSE a

\* a - b
F32_sub(a, b) == F32_add(a, F32_neg(b))

----------------------------------------------------------------------------
\* Vec2 (glam) and Rect

Vec2_new(x, y) == [x |-> x, y |-> y]

Vec2_ZERO == Vec2_new(F32_ZERO, F32_ZERO)

\* Vec2 + Vec2, componentwise
Vec2_add(bld, a, b) ==
    LET x == [ok |-> TRUE, over |-> FALSE, v |-> F32_add(a.x, b.x)]
        y == [ok |-> TRUE, over |-> FALSE, v |-> F32_add(a.y, b.y)]
    IN  [ok |-> x.ok /\ y.ok, over |-> x.over \/ y.over, v |-> Vec2_new(x.v, y.v)]

\* Vec2 - Vec2, componentwise
Vec2_sub(bld, a, b) ==
    LET x == [ok |-> TRUE, over |-> FALSE, v |-> F32_sub(a.x, b.x)]
        y == [ok |-> TRUE, over |-> FALSE, v |-> F32_sub(a.y, b.y)]
    IN  [ok |-> x.ok /\ y.ok, over |-> x.over \/ y.over, v |-> Vec2_new(x.v, y.v)]

Rect_new(top_left, bottom_right) ==
    [ty |-> "Rect", top_left |-> top_left, bottom_right |-> bottom_right]

Rect_corners(r) ==
    LET top_right   == Vec2_new(r.bottom_right.x, r.top_left.y)
        bottom_left == Vec2_new(r.top_left.x, r.bottom_right.y)
    IN  <<r.top_left, top_right, r.bottom_right, bottom_left>>

Rect_top_right(r) == Vec2_new(r.bottom_right.x, r.top_left.y)

Rect_bottom_left(r) == Vec2_new(r.top_left.x, r.bottom_right.y)

Rect_from_tuples(top_left, bottom_right) ==
    [ty |-> "Rect",
     top_left |-> Vec2_new(top_left[1], top_left[2]),
     bottom_right |-> Vec2_new(bottom_right[1], bottom_right[2])]

Rect_width(bld, r) == [ok |-> TRUE, over |-> FALSE, v |-> F32_sub(r.bottom_right.x, r.top_left.x)]

Rect_height(bld, r) == [ok |-> TRUE, over |-> FALSE, v |-> F32_sub(r.bottom_right.y, r.top_left.y)]

Rect_size(bld, r) ==
    LET w == Rect_width(bld, r)
        h == Rect_height(bld, r)
    IN  [ok |-> w.ok /\ h.ok, over |-> w.over \/ h.over, v |-> Vec2_new(w.v, h.v)]

Rect_contains(r, point) ==
    /\ F32_ge(point.x, r.top_left.x)
    /\ F32_ge(point.y, r.top_left.y)
    /\ F32_lt(point.x, r.bottom_right.x)
    /\ F32_lt(point.y, r.bottom_right.y)

\* Rect::is_zero_area with && for ||
Rect_is_zero_area_and(r) ==
    F32_eq(r.top_left.x, r.bottom_right.x) /\ F32_eq(r.top_left.y, r.bottom_right.y)

Rect_is_zero_area(r) ==
    F32_eq(r.top_left.x, r.bottom_right.x) \/ F32_eq(r.top_left.y, r.bottom_right.y)

Rect_is_positive_area(r) ==
    F32_lt(r.top_left.x, r.bottom_right.x) /\ F32_lt(r.top_left.y, r.bottom_right.y)

\* Rect::intersect returning every candidate that is not inverted
Rect_intersect_touching(r, other) ==
    LET result == [ty |-> "Rect",
                   top_left |-> Vec2_new(F32_max(r.top_left.x, other.top_left.x),
                                        F32_max(r.top_left.y, other.top_left.y)),
                   bottom_right |-> Vec2_new(F32_min(r.bottom_right.x, other.bottom_right.x),
                                            F32_min(r.bottom_right.y, other.bottom_right.y))]
    IN  IF F32_ge(result.bottom_right.x, result.top_left.x)
           /\ F32_ge(result.bottom_right.y, result.top_left.y)
        THEN [some |-> TRUE, v |-> result]
        ELSE [some |-> FALSE, v |-> Vec2_ZERO]

Rect_intersect(r, other) ==
    LET result == [ty |-> "Rect",
                   top_left |-> Vec2_new(F32_max(r.top_left.x, other.top_left.x),
                                        F32_max(r.top_left.y, other.top_left.y)),
                   bottom_right |-> Vec2_new(F32_min(r.bottom_right.x, other.bottom_right.x),
                                            F32_min(r.bottom_right.y, other.bottom_right.y))]
    IN  IF Rect_is_positive_area(result)
        THEN [some |-> TRUE, v |-> result]
        ELSE [some |-> FALSE, v |-> Vec2_ZERO]

Rect_with_offset(bld, r, offset) ==
    LET tl == Vec2_add(bld, r.top_left, offset)
        br == Vec2_add(bld, r.bottom_right, offset)
    IN  [ok |-> tl.ok /\ br.ok, over |-> tl.over \/ br.over, v |-> Rect_new(tl.v, br.v)]

Rect_with_negative_offset(bld, r, offset) ==
    LET tl == Vec2_sub(bld, r.top_left, offset)
        br == Vec2_sub(bld, r.bottom_right, offset)
    IN  [ok |-> tl.ok /\ br.ok, over |-> tl.over \/ br.over, v |-> Rect_new(tl.v, br.v)]

----------------------------------------------------------------------------
\* UVec2 (glam) and URect

UVec2_new(x, y) == [x |-> x, y |-> y]

UVec2_ZERO == UVec2_new(U32_ZERO, U32_ZERO)

\* UVec2 + UVec2, componentwise
UVec2_add(bld, a, b) ==
    LET x == U32_add(bld, a.x, b.x)
        y == U32_add(bld, a.y, b.y)
    IN  [ok |-> x.ok /\ y.ok, over |-> x.over \/ y.over, v |-> UVec2_new(x.v, y.v)]

\* UVec2 - UVec2, componentwise
UVec2_sub(bld, a, b) ==
    LET x == U32_sub(bld, a.x, b.x)
        y == U32_sub(bld, a.y, b.y)
    IN  [ok |-> x.ok /\ y.ok, over |-> x.over \/ y.over, v |-> UVec2_new(x.v, y.v)]

URect_new(top_left, bottom_right) ==
    [ty |-> "URect", top_left |-> top_left, bottom_right |-> bottom_right]

URect_corners(r) ==
    LET top_right   == UVec2_new(r.bottom_right.x, r.top_left.y)
        bottom_left == UVec2_new(r.top_left.x, r.bottom_right.y)
    IN  <<r.top_left, top_right, r.bottom_right, bottom_left>>

URect_top_right(r) == UVec2_new(r.bottom_right.x, r.top_left.y)

URect_bottom_left(r) == UVec2_new(r.top_left.x, r.bottom_right.y)

URect_from_tuples(top_left, bottom_right) ==
    [ty |-> "URect",
     top_left |-> UVec2_new(top_left[1], top_left[2]),
     bottom_right |-> UVec2_new(bottom_right[1], bottom_right[2])]

URect_width(bld, r) == U32_sub(bld, r.bottom_right.x, r.top_left.x)

URect_height(bld, r) == U32_sub(bld, r.bottom_right.y, r.top_left.y)

URect_size(bld, r) ==
    LET w == URect_width(bld, r)
        h == URect_height(bld, r)
    IN  [ok |-> w.ok /\ h.ok, over |-> w.over \/ h.over, v |-> UVec2_new(w.v, h.v)]

URect_contains(r, point) ==
    /\ U32_ge(point.x, r.top_left.x)
    /\ U32_ge(point.y, r.top_left.y)
    /\ U32_lt(point.x, r.bottom_right.x)
    /\ U32_lt(point.y, r.bottom_right.y)

URect_is_zero_area(r) ==
    r.top_left.x = r.bottom_right.x \/ r.top_left.y = r.bottom_right.y

\* URect::is_positive_area with <= for <
URect_is_positive_area_le(r) ==
    U32_ge(r.bottom_right.x, r.top_left.x) /\ U32_ge(r.bottom_right.y, r.top_left.y)

URect_is_positive_area(r) ==
    U32_lt(r.top_left.x, r.bottom_right.x) /\ U32_lt(r.top_left.y, r.bottom_right.y)

\* URect::intersect keeping the receiver's top_left
URect_intersect_asym(r, other) ==
    LET result == [ty |-> "URect",
                   top_left |-> r.top_left,
                   bottom_right |-> UVec2_new(U32_min(r.bottom_right.x, other.bottom_right.x),
                                            U32_min(r.bottom_right.y, other.bottom_right.y))]
    IN  IF URect_is_positive_area(result)
        THEN [some |-> TRUE, v |-> result]
        ELSE [some |-> FALSE, v |-> UVec2_ZERO]

URect_intersect(r, other) ==
    LET result == [ty |-> "URect",
                   top_left |-> UVec2_new(U32_max(r.top_left.x, other.top_left.x),
                                        U32_max(r.top_left.y, other.top_left.y)),
                   bottom_right |-> UVec2_new(U32_min(r.bottom_right.x, other.bottom_right.x),
                                            U32_min(r.bottom_right.y, other.bottom_right.y))]
    IN  IF URect_is_positive_area(result)
        THEN [some |-> TRUE, v |-> result]
        ELSE [some |-> FALSE, v |-> UVec2_ZERO]

URect_with_offset(bld, r, offset) ==
    LET tl == UVec2_add(bld, r.top_left, offset)
        br == UVec2_add(bld, r.bottom_right, offset)
    IN  [ok |-> tl.ok /\ br.ok, over |-> tl.over \/ br.over, v |-> URect_new(tl.v, br.v)]

\* URect::with_negative_offset adding the offset
URect_with_negative_offset_add(bld, r, offset) ==
    LET tl == UVec2_add(bld, r.top_left, offset)
        br == UVec2_add(bld, r.bottom_right, offset)
    IN  [ok |-> tl.ok /\ br.ok, over |-> tl.over \/ br.over, v |-> URect_new(tl.v, br.v)]

URect_with_negative_offset(bld, r, offset) ==
    LET tl == UVec2_sub(bld, r.top_left, offset)
        br == UVec2_sub(bld, r.bottom_right, offset)
    IN  [ok |-> tl.ok /\ br.ok, over |-> tl.over \/ br.over, v |-> URect_new(tl.v, br.v)]

----------------------------------------------------------------------------
\* IVec2 (glam) and IRect

IVec2_new(x, y) == [x |-> x, y |-> y]

IVec2_ZERO == IVec2_new(0, 0)

\* IVec2 + IVec2, componentwise
IVec2_add(bld, a, b) ==
    LET x == I32_add(bld, a.x, b.x)
        y == I32_add(bld, a.y, b.y)
    IN  [ok |-> x.ok /\ y.ok, over |-> x.over \/ y.over, v |-> IVec2_new(x.v, y.v)]

\* IVec2 - IVec2, componentwise
IVec2_sub(bld, a, b) ==
    LET x == I32_sub(bld, a.x, b.x)
        y == I32_sub(bld, a.y, b.y)
    IN  [ok |-> x.ok /\ y.ok, over |-> x.over \/ y.over, v |-> IVec2_new(x.v, y.v)]

IRect_new(top_left, bottom_right) ==
    [ty |-> "IRect", top_left |-> top_left, bottom_right |-> bottom_right]

IRect_corners(r) ==
    LET top_right   == IVec2_new(r.bottom_right.x, r.top_left.y)
        bottom_left == IVec2_new(r.top_left.x, r.bottom_right.y)
    IN  <<r.top_left, top_right, r.bottom_right, bottom_left>>

IRect_top_right(r) == IVec2_new(r.bottom_right.x, r.top_left.y)

IRect_bottom_left(r) == IVec2_new(r.top_left.x, r.bottom_right.y)

IRect_from_tuples(top_left, bottom_right) ==
    [ty |-> "IRect",
     top_left |-> IVec2_new(top_left[1], top_left[2]),
     bottom_right |-> IVec2_new(bottom_right[1], bottom_right[2])]

\* IRect::width with the operands swapped
IRect_width_swapped(bld, r) == I32_sub(bld, r.top_left.x, r.bottom_right.x)

IRect_width(bld, r) == I32_sub(bld, r.bottom_right.x, r.top_left.x)

IRect_height(bld, r) == I32_sub(bld, r.bottom_right.y, r.top_left.y)

IRect_size(bld, r) ==
    LET w == IRect_width(bld, r)
        h == IRect_height(bld, r)
    IN  [ok |-> w.ok /\ h.ok, over |-> w.over \/ h.over, v |-> IVec2_new(w.v, h.v)]

\* IRect::contains with the bottom and right edges included
IRect_contains_closed(r, point) ==
    /\ point.x >= r.top_left.x
    /\ point.y >= r.top_left.y
    /\ point.x <= r.bottom_right.x
    /\ point.y <= r.bottom_right.y

IRect_contains(r, point) ==
    /\ point.x >= r.top_left.x
    /\ point.y >= r.top_left.y
    /\ point.x < r.bottom_right.x
    /\ point.y < r.bottom_right.y

IRect_is_zero_area(r) ==
    r.top_left.x = r.bottom_right.x \/ r.top_left.y = r.bottom_right.y

IRect_is_positive_area(r) ==
    r.top_left.x < r.bottom_right.x /\ r.top_left.y < r.bottom_right.y

\* IRect::intersect taking bottom_right.y from the top_left corners
IRect_intersect_slip(r, other) ==
    LET result == [ty |-> "IRect",
                   top_left |-> IVec2_new(I32_max(r.top_left.x, other.top_left.x),
                                        I32_max(r.top_left.y, other.top_left.y)),
                   bottom_right |-> IVec2_new(I32_min(r.bottom_right.x, other.bottom_right.x),
                                            I32_min(r.top_left.y, other.top_left.y))]
    IN  IF IRect_is_positive_area(result)
        THEN [some |-> TRUE, v |-> result]
        ELSE [some |-> FALSE, v |-> IVec2_ZERO]

IRect_intersect(r, other) ==
    LET result == [ty |-> "IRect",
                   top_left |-> IVec2_new(I32_max(r.top_left.x, other.top_left.x),
                                        I32_max(r.top_left.y, other.top_left.y)),
                   bottom_right |-> IVec2_new(I32_min(r.bottom_right.x, other.bottom_right.x),
                                            I32_min(r.bottom_right.y, other.bottom_right.y))]
    IN  IF IRect_is_positive_area(result)
        THEN [some |-> TRUE, v |-> result]
        ELSE [some |-> FALSE, v |-> IVec2_ZERO]

IRect_with_offset(bld, r, offset) ==
    LET tl == IVec2_add(bld, r.top_left, offset)
        br == IVec2_add(bld, r.bottom_right, offset)
    IN  [ok |-> tl.ok /\ br.ok, over |-> tl.over \/ br.over, v |-> IRect_new(tl.v, br.v)]

IRect_with_negative_offset(bld, r, offset) ==
    LET tl == IVec2_sub(bld, r.top_left, offset)
        br == IVec2_sub(bld, r.bottom_right, offset)
    IN  [ok |-> tl.ok /\ br.ok, over |-> tl.over \/ br.over, v |-> IRect_new(tl.v, br.v)]

\* the ZERO constants, as declared
Rect_ZERO == Rect_new(Vec2_ZERO, Vec2_ZERO)

URect_ZERO == URect_new(UVec2_ZERO, UVec2_ZERO)

IRect_ZERO == URect_new(UVec2_ZERO, UVec2_ZERO)

\* derived PartialEq
Vec2_eq(a, b) == F32_eq(a.x, b.x) /\ F32_eq(a.y, b.y)

Rect_eq(a, b) == Vec2_eq(a.top_left, b.top_left) /\ Vec2_eq(a.bottom_right, b.bottom_right)

URect_eq(a, b) == a.top_left = b.top_left /\ a.bottom_right = b.bottom_right

IRect_eq(a, b) == a.top_left = b.top_left /\ a.bottom_right = b.bottom_right

----------------------------------------------------------------------------
\* method calls, resolved on the receiver's type

corners(r) ==
    CASE r.ty = "Rect" -> Rect_corners(r)
      [] r.ty = "URect" -> URect_corners(r)
      [] r.ty = "IRect" -> IRect_corners(r)

top_right(r) ==
    CASE r.ty = "Rect" -> Rect_top_right(r)
      [] r.ty = "URect" -> URect_top_right(r)
      [] r.ty = "IRect" -> IRect_top_right(r)

bottom_left(r) ==
    CASE r.ty = "Rect" -> Rect_bottom_left(r)
      [] r.ty = "URect" -> URect_bottom_left(r)
      [] r.ty = "IRect" -> IRect_bottom_left(r)

width(bld, r) ==
    CASE r.ty = "Rect" -> Rect_width(bld, r)
      [] r.ty = "URect" -> URect_width(bld, r)
      [] r.ty = "IRect" -> IRect_width(bld, r)

height(bld, r) ==
    CASE r.ty = "Rect" -> Rect_height(bld, r)
      [] r.ty = "URect" -> URect_height(bld, r)
      [] r.ty = "IRect" -> IRect_height(bld, r)

size(bld, r) ==
    CASE r.ty = "Rect" -> Rect_size(bld, r)
      [] r.ty = "URect" -> URect_size(bld, r)
      [] r.ty = "IRect" -> IRect_size(bld, r)

contains(r, point) ==
    CASE r.ty = "Rect" -> Rect_contains(r, point)
      [] r.ty = "URect" -> URect_contains(r, point)
      [] r.ty = "IRect" -> IRect_contains(r, point)

intersect(r, other) ==
    CASE r.ty = "Rect" -> Rect_intersect(r, other)
      [] r.ty = "URect" -> URect_intersect(r, other)
      [] r.ty = "IRect" -> IRect_intersect(r, other)

is_zero_area(r) ==
    CASE r.ty = "Rect" -> Rect_is_zero_area(r)
      [] r.ty = "URect" -> URect_is_zero_area(r)
      [] r.ty = "IRect" -> IRect_is_zero_area(r)

is_positive_area(r) ==
    CASE r.ty = "Rect" -> Rect_is_positive_area(r)
      [] r.ty = "URect" -> URect_is_positive_area(r)
      [] r.ty = "IRect" -> IRect_is_positive_area(r)

with_offset(bld, r, offset) ==
    CASE r.ty = "Rect" -> Rect_with_offset(bld, r, offset)
      [] r.ty = "URect" -> URect_with_offset(bld, r, offset)
      [] r.ty = "IRect" -> IRect_with_offset(bld, r, offset)

with_negative_offset(bld, r, offset) ==
    CASE r.ty = "Rect" -> Rect_with_negative_offset(bld, r, offset)
      [] r.ty = "URect" -> URect_with_negative_offset(bld, r, offset)
      [] r.ty = "IRect" -> IRect_with_negative_offset(bld, r, offset)

\* associated items, resolved on the type named
new(d, top_left, bottom_right) ==
    CASE d = "Rect" -> Rect_new(top_left, bottom_right)
      [] d = "URect" -> URect_new(top_left, bottom_right)
      [] d = "IRect" -> IRect_new(top_left, bottom_right)

from_tuples(d, top_left, bottom_right) ==
    CASE d = "Rect" -> Rect_from_tuples(top_left, bottom_right)
      [] d = "URect" -> URect_from_tuples(top_left, bottom_right)
      [] d = "IRect" -> IRect_from_tuples(top_left, bottom_right)

ZERO(d) ==
    CASE d = "Rect" -> Rect_ZERO
      [] d = "URect" -> URect_ZERO
      [] d = "IRect" -> IRect_ZERO

\* == on two rectangles of one type
eq(a, b) ==
    CASE a.ty = "Rect" -> Rect_eq(a, b)
      [] a.ty = "URect" -> URect_eq(a, b)
      [] a.ty = "IRect" -> IRect_eq(a, b)

\* == on two Option<rectangle>
option_eq(a, b) == a.some = b.some /\ (a.some => eq(a.v, b.v))

----------------------------------------------------------------------------
\* inputs

\* coordinates of the rectangles
Coords(d) ==
    CASE d = "Rect" -> {F32_NAN, Fin(F32_EXACT)} \cup {Fin(n) : n \in 0 .. MaxCoord - 1}
      [] d = "URect" -> {U32_MAX} \cup {U32(0, n) : n \in 0 .. MaxCoord}
      [] d = "IRect" -> {I32_MIN, I32_MAX} \cup (-1 .. MaxCoord - 2)

\* components of the points and offsets
Scalars(d) ==
    CASE d = "Rect" -> Coords(d) \cup {F32_INF, F32_NEG_INF}
      [] d = "URect" -> Coords(d)
      [] d = "IRect" -> Coords(d) \cup {1}

\* the zero point of the domain
ZeroPoint(d) ==
    CASE d = "Rect" -> [x |-> <<"fin", 0>>, y |-> <<"fin", 0>>]
      [] d = "URect" -> [x |-> <<0, 0>>, y |-> <<0, 0>>]
      [] d = "IRect" -> [x |-> 0, y |-> 0]

Vecs(d) == [x : Scalars(d), y : Scalars(d)]

Points(d) == [x : Coords(d), y : Coords(d)]

Rects(d) == {new(d, tl, br) : tl \in Points(d), br \in Points(d)}

NoArg == [x |-> 0, y |-> 0]

NoValue == [x |-> 0, y |-> 0]

NoRes == [kind |-> "none", ok |-> TRUE, over |-> FALSE, v |-> NoValue]

\* the outcome of a call that does arithmetic: a panic leaves no value
Done(kind, r) ==
    [kind |-> kind, ok |-> r.ok, over |-> r.over, v |-> IF r.ok THEN r.v ELSE NoValue]

\* the outcome of a call that does none
Value(kind, v) == [kind |-> kind, ok |-> TRUE, over |-> FALSE, v |-> v]

----------------------------------------------------------------------------
\* the calls

Init ==
    /\ dom \in Domains
    /\ build \in Builds
    /\ self \in Rects(dom)
    /\ op = "new"
    /\ arg = NoArg
    /\ res = NoRes

Call(name, a, r) ==
    /\ op = "new"
    /\ op' = name
    /\ arg' = a
    /\ res' = r
    /\ UNCHANGED <<dom, build, self>>

FromTuples ==
    Call("from_tuples", NoArg,
         Value("rect", from_tuples(dom, <<self.top_left.x, self.top_left.y>>,
                                   <<self.bottom_right.x, self.bottom_right.y>>)))

Corners == Call("corners", NoArg, Value("corners", corners(self)))

TopRight == Call("top_right", NoArg, Value("vec", top_right(self)))

BottomLeft == Call("bottom_left", NoArg, Value("vec", bottom_left(self)))

Width == Call("width", NoArg, Done("scalar", width(build, self)))

Height == Call("height", NoArg, Done("scalar", height(build, self)))

Size == Call("size", NoArg, Done("vec", size(build, self)))

Contains ==
    /\ op = "new"
    /\ \E point \in Vecs(dom) : Call("contains", point, Value("bool", contains(self, point)))

Intersect ==
    /\ op = "new"
    /\ \E other \in Rects(dom) : Call("intersect", other, Value("option", intersect(self, other)))

Zero == Call("ZERO", NoArg, Value("rect", ZERO(dom)))

IsZeroArea == Call("is_zero_area", NoArg, Value("bool", is_zero_area(self)))

IsPositiveArea == Call("is_positive_area", NoArg, Value("bool", is_positive_area(self)))

WithOffset ==
    /\ op = "new"
    /\ \E offset \in Vecs(dom) : Call("with_offset", offset, Done("rect", with_offset(build, self, offset)))

WithNegativeOffset ==
    /\ op = "new"
    /\ \E offset \in Vecs(dom) :
        Call("with_negative_offset", offset, Done("rect", with_negative_offset(build, self, offset)))

\* r.with_offset(v).with_negative_offset(v): the second call of the chain
ThenWithNegativeOffset ==
    /\ op = "with_offset"
    /\ res.ok
    /\ op' = "with_offset.with_negative_offset"
    /\ res' = Done("rect", with_negative_offset(build, res.v, arg))
    /\ UNCHANGED <<dom, build, self, arg>>

Next ==
    \/ FromTuples
    \/ Corners
    \/ TopRight
    \/ BottomLeft
    \/ Width
    \/ Height
    \/ Size
    \/ Contains
    \/ Intersect
    \/ Zero
    \/ IsZeroArea
    \/ IsPositiveArea
    \/ WithOffset
    \/ WithNegativeOffset
    \/ ThenWithNegativeOffset

Spec == Init /\ [][Next]_vars

----------------------------------------------------------------------------
\* The order and the arithmetic of the three domains, stated for the
\* properties below.

Unordered(a) == a[1] = "nan"

\* a < b
Lt(d, a, b) ==
    CASE d = "Rect" ->
           /\ ~Unordered(a)
           /\ ~Unordered(b)
           /\ \/ (a[1] = "fin" /\ b[1] = "fin" /\ a[2] < b[2])
              \/ (a[1] = "fin" /\ b = <<"inf", 1>>)
              \/ (a = <<"inf", -1>> /\ b[1] = "fin")
              \/ (a = <<"inf", -1>> /\ b = <<"inf", 1>>)
      [] d = "URect" -> a[1] < b[1] \/ (a[1] = b[1] /\ a[2] < b[2])
      [] d = "IRect" -> a < b

\* a <= b
Le(d, a, b) ==
    CASE d = "Rect" -> (~Unordered(a) /\ ~Unordered(b) /\ a = b) \/ Lt(d, a, b)
      [] d = "URect" -> a = b \/ Lt(d, a, b)
      [] d = "IRect" -> a <= b

\* the greater / the lesser of a and b, an unordered operand being ignored
MaxOf(d, a, b) ==
    IF d = "Rect" /\ Unordered(a) THEN b
    ELSE IF d = "Rect" /\ Unordered(b) THEN a
    ELSE CHOOSE m \in {a, b} : Le(d, a, m) /\ Le(d, b, m)

MinOf(d, a, b) ==
    IF d = "Rect" /\ Unordered(a) THEN b
    ELSE IF d = "Rect" /\ Unordered(b) THEN a
    ELSE CHOOSE m \in {a, b} : Le(d, m, a) /\ Le(d, m, b)

\* top_left.x < bottom_right.x and top_left.y < bottom_right.y
PositiveArea(r) ==
    Lt(r.ty, r.top_left.x, r.bottom_right.x) /\ Lt(r.ty, r.top_left.y, r.bottom_right.y)

\* point.x in [top_left.x, bottom_right.x) and point.y in [top_left.y, bottom_right.y)
InHalfOpen(r, p) ==
    /\ Le(r.ty, r.top_left.x, p.x) /\ Lt(r.ty, p.x, r.bottom_right.x)
    /\ Le(r.ty, r.top_left.y, p.y) /\ Lt(r.ty, p.y, r.bottom_right.y)

\* C1: in each domain r.contains(p) is true exactly when p.x is in
\* [top_left.x, bottom_right.x) and p.y is in [top_left.y, bottom_right.y); a
\* positive-area rectangle contains its top_left corner and none of its
\* top_right, bottom_right and bottom_left corners.
C1_ContainsHalfOpen ==
    op = "contains" =>
        /\ res.v <=> InHalfOpen(self, arg)
        /\ PositiveArea(self) =>
             /\ arg = self.top_left => res.v
             /\ arg = [x |-> self.bottom_right.x, y |-> self.top_left.y] => ~res.v
             /\ arg = self.bottom_right => ~res.v
             /\ arg = [x |-> self.top_left.x, y |-> self.bottom_right.y] => ~res.v

C1_Witness ==
    /\ op = "contains"
    /\ dom = "IRect"
    /\ PositiveArea(self)
    /\ arg = self.top_left
    /\ res.v

\* the candidate of a.intersect(b)
Candidate(a, b) ==
    [ty |-> a.ty,
     top_left |-> [x |-> MaxOf(a.ty, a.top_left.x, b.top_left.x),
                   y |-> MaxOf(a.ty, a.top_left.y, b.top_left.y)],
     bottom_right |-> [x |-> MinOf(a.ty, a.bottom_right.x, b.bottom_right.x),
                       y |-> MinOf(a.ty, a.bottom_right.y, b.bottom_right.y)]]

\* C2: a.intersect(b) is Some(candidate), the candidate having the
\* componentwise max of the top_left corners and the componentwise min of the
\* bottom_right corners, exactly when the candidate is positive-area, and None
\* otherwise; a rectangle returned inside Some is positive-area.
C2_IntersectCandidate ==
    op = "intersect" =>
        /\ res.v.some <=> is_positive_area(Candidate(self, arg))
        /\ res.v.some => res.v.v = Candidate(self, arg) /\ PositiveArea(res.v.v)

C2_Witness ==
    /\ op = "intersect"
    /\ res.v.some
    /\ res.v.v # self
    /\ res.v.v # arg

\* C3: a point is contained in a and in b exactly when a.intersect(b) is
\* Some(c) and c contains the point.
C3_IntersectIsCommonArea ==
    op = "intersect" =>
        \A p \in Points(dom) :
            (contains(self, p) /\ contains(arg, p))
                <=> (res.v.some /\ contains(res.v.v, p))

\* a and b are separated on an axis, or touch along an edge
Apart(a, b) ==
    \/ Le(a.ty, a.bottom_right.x, b.top_left.x)
    \/ Le(a.ty, a.bottom_right.y, b.top_left.y)
    \/ Le(a.ty, b.bottom_right.x, a.top_left.x)
    \/ Le(a.ty, b.bottom_right.y, a.top_left.y)

\* C4: rectangles separated on an axis, or touching along an edge, have no
\* intersection.
C4_ApartNoIntersection ==
    op = "intersect" /\ Apart(self, arg) => ~res.v.some

C4_Witness ==
    /\ op = "intersect"
    /\ PositiveArea(self)
    /\ PositiveArea(arg)
    /\ self.bottom_right.y = arg.top_left.y
    /\ self.top_left.x = arg.top_left.x
    /\ self.bottom_right.x = arg.bottom_right.x
    /\ ~res.v.some

\* C5: a positive-area rectangle intersected with itself is Some(itself).
C5_SelfIntersection ==
    op = "intersect" /\ arg = self /\ PositiveArea(self) =>
        res.v.some /\ eq(res.v.v, self)

C5_Witness ==
    /\ op = "intersect"
    /\ dom = "Rect"
    /\ arg = self
    /\ PositiveArea(self)
    /\ res.v.some

\* C6: a.intersect(b) == b.intersect(a), for well-formed and inverted
\* rectangles alike.
C6_IntersectSymmetric ==
    op = "intersect" => option_eq(res.v, intersect(arg, self))

C6_Witness ==
    /\ op = "intersect"
    /\ dom = "URect"
    /\ self # arg
    /\ res.v.some
    /\ intersect(arg, self).some

\* no corner component of r is unordered
Ordered(r) ==
    r.ty = "Rect" =>
        \A c \in {r.top_left.x, r.top_left.y, r.bottom_right.x, r.bottom_right.y} : ~Unordered(c)

\* C3 on the rectangles without an unordered corner component
IntersectIsCommonAreaOrdered ==
    op = "intersect" /\ Ordered(self) /\ Ordered(arg) =>
        \A p \in Points(dom) :
            (contains(self, p) /\ contains(arg, p))
                <=> (res.v.some /\ contains(res.v.v, p))

\* a + b is a value of the domain d (an integer domain)
SumFits(d, a, b) ==
    CASE d = "URect" -> Le(d, b, <<Limb - 1 - a[1], Limb - 1 - a[2]>>)
      [] d = "IRect" ->
           LET half == (a \div 2) + (b \div 2) + (((a % 2) + (b % 2)) \div 2)
           IN  half >= -1073741824 /\ half <= 1073741823

\* a - b is a value of the domain d (an integer domain)
DiffFits(d, a, b) ==
    CASE d = "URect" -> Le(d, b, a)
      [] d = "IRect" ->
           LET odd  == (a % 2) - (b % 2)
               half == (a \div 2) - (b \div 2) + (IF odd < 0 THEN -1 ELSE 0)
           IN  half >= -1073741824 /\ half <= 1073741823

\* every corner component of r plus / minus the component of v is a value of the domain
OffsetFits(r, v) ==
    /\ SumFits(r.ty, r.top_left.x, v.x) /\ SumFits(r.ty, r.top_left.y, v.y)
    /\ SumFits(r.ty, r.bottom_right.x, v.x) /\ SumFits(r.ty, r.bottom_right.y, v.y)

NegativeOffsetFits(r, v) ==
    /\ DiffFits(r.ty, r.top_left.x, v.x) /\ DiffFits(r.ty, r.top_left.y, v.y)
    /\ DiffFits(r.ty, r.bottom_right.x, v.x) /\ DiffFits(r.ty, r.bottom_right.y, v.y)

\* the integer n is an f32 (for |n| up to 2^26)
Representable(n) ==
    LET m == IF n < 0 THEN -n ELSE n
    IN  \/ m <= 16777216
        \/ (m <= 33554432 /\ m % 2 = 0)
        \/ (m <= 67108864 /\ m % 4 = 0)

\* the f32 sum a + b is finite and exact
ExactSum(a, b) == a[1] = "fin" /\ b[1] = "fin" /\ Representable(a[2] + b[2])

ExactOffset(r, v) ==
    /\ ExactSum(r.top_left.x, v.x) /\ ExactSum(r.top_left.y, v.y)
    /\ ExactSum(r.bottom_right.x, v.x) /\ ExactSum(r.bottom_right.y, v.y)

\* C7 as claimed: for any rectangle r and any vector v,
\* r.with_offset(v).with_negative_offset(v) completes and equals r.
C7_OffsetRoundTripAlways ==
    /\ op = "with_offset" => res.ok
    /\ op = "with_offset.with_negative_offset" => res.ok /\ eq(res.v, self)

\* C7, amended: in URect and IRect r.with_offset(v) completes unless overflow
\* checks are on and a corner component plus the component of v leaves the
\* 32-bit range, and whenever it completes .with_negative_offset(v) completes
\* and gives r; in Rect the round trip gives r whenever every corner component
\* plus the component of v is finite and exact.
C7_OffsetRoundTrip ==
    /\ op = "with_offset" /\ dom # "Rect" =>
          (res.ok <=> (build = "wrapping" \/ OffsetFits(self, arg)))
    /\ op = "with_offset" /\ dom # "Rect" => (res.over <=> ~OffsetFits(self, arg))
    /\ op = "with_offset" /\ dom = "Rect" => res.ok
    /\ op = "with_offset.with_negative_offset" /\ dom # "Rect" =>
          res.ok /\ eq(res.v, self)
    /\ op = "with_offset.with_negative_offset" /\ dom = "Rect" =>
          res.ok /\ (ExactOffset(self, arg) => eq(res.v, self))

C7_Witness ==
    /\ op = "with_offset.with_negative_offset"
    /\ dom = "URect"
    /\ build = "wrapping"
    /\ ~OffsetFits(self, arg)
    /\ res.ok
    /\ eq(res.v, self)

\* r is inverted on an axis
Inverted(r) ==
    Lt(r.ty, r.bottom_right.x, r.top_left.x) \/ Lt(r.ty, r.bottom_right.y, r.top_left.y)

\* r is collapsed on an axis
Collapsed(r) ==
    \/ Le(r.ty, r.top_left.x, r.bottom_right.x) /\ Le(r.ty, r.bottom_right.x, r.top_left.x)
    \/ Le(r.ty, r.top_left.y, r.bottom_right.y) /\ Le(r.ty, r.bottom_right.y, r.top_left.y)

\* C8 as claimed: an inverted rectangle is neither zero-area nor positive-area.
C8_InvertedIsNeither ==
    op \in {"is_zero_area", "is_positive_area"} /\ Inverted(self) => ~res.v

\* C8, amended: a rectangle inverted on an axis is never positive-area, and it
\* is zero-area exactly when its other axis is collapsed (top_left equal to
\* bottom_right on it).
C8_InvertedArea ==
    /\ op = "is_positive_area" /\ Inverted(self) => ~res.v
    /\ op = "is_zero_area" /\ Inverted(self) => (res.v <=> Collapsed(self))

C8_Witness ==
    /\ op = "is_zero_area"
    /\ Inverted(self)
    /\ Collapsed(self)
    /\ res.v

\* top_left.x <= bottom_right.x and top_left.y <= bottom_right.y
WellFormed(r) ==
    Le(r.ty, r.top_left.x, r.bottom_right.x) /\ Le(r.ty, r.top_left.y, r.bottom_right.y)

\* C9 as claimed: in URect and IRect every operation on a well-formed
\* rectangle completes without overflow or underflow, for every argument.
C9_TotalOnWellFormed ==
    dom # "Rect" /\ WellFormed(self) /\ op # "with_offset.with_negative_offset" =>
        res.ok /\ ~res.over

WidthFits(r) == DiffFits(r.ty, r.bottom_right.x, r.top_left.x)

HeightFits(r) == DiffFits(r.ty, r.bottom_right.y, r.top_left.y)

\* C9, amended: in URect and IRect corners, top_right, bottom_left, contains,
\* intersect, is_zero_area and is_positive_area complete for every input; on a
\* well-formed URect width, height and size complete without underflow and
\* width is bottom_right.x - top_left.x; on a well-formed IRect they overflow
\* exactly when bottom_right - top_left exceeds i32::MAX on the axis;
\* with_offset and with_negative_offset overflow exactly when a corner
\* component plus / minus the component of the offset leaves the range of the
\* domain.  An overflow is a panic exactly when overflow checks are on.
C9_TotalWhereItFits ==
    dom # "Rect" /\ WellFormed(self) /\ op # "with_offset.with_negative_offset" =>
        /\ res.ok <=> ~(res.over /\ build = "checked")
        /\ op \in {"from_tuples", "corners", "top_right", "bottom_left", "contains",
                   "intersect", "is_zero_area", "is_positive_area", "ZERO"} => ~res.over
        /\ op \in {"width", "height", "size"} /\ dom = "URect" => ~res.over
        /\ op = "width" => (res.over <=> ~WidthFits(self))
        /\ op = "height" => (res.over <=> ~HeightFits(self))
        /\ op = "size" => (res.over <=> ~(WidthFits(self) /\ HeightFits(self)))
        /\ op = "width" /\ ~res.over /\ dom = "URect" =>
              U32_add("checked", self.top_left.x, res.v).v = self.bottom_right.x
        /\ op = "width" /\ ~res.over /\ dom = "IRect" =>
              I32_add("checked", self.top_left.x, res.v).v = self.bottom_right.x
        /\ op = "with_offset" => (res.over <=> ~OffsetFits(self, arg))
        /\ op = "with_negative_offset" => (res.over <=> ~NegativeOffsetFits(self, arg))

C9_Witness ==
    /\ op = "width"
    /\ dom = "IRect"
    /\ build = "checked"
    /\ WellFormed(self)
    /\ res.over
    /\ ~res.ok

\* C10: each type's ZERO is a rectangle of that type, with both corners at the
\* zero point of its domain, zero-area and not positive-area.
C10_ZeroOfOwnType ==
    op = "ZERO" =>
        /\ res.v.ty = dom
        /\ res.v = new(dom, ZeroPoint(dom), ZeroPoint(dom))
        /\ is_zero_area(res.v)
        /\ ~is_positive_area(res.v)

====
